---- MODULE Spec2Model ----
(***************************************************************************)
(* The Indego system explorer dashboard (src/ui/main.js): the module-level *)
(* state, the update orchestrator (updateAll and the handlers that call    *)
(* it), the feature builder, the map filter, the colour mapping and the    *)
(* histogram selection handler.                                            *)
(*                                                                         *)
(* JavaScript runs the handlers on one thread: a handler runs to its first *)
(* await without interleaving, and the code after an await that has        *)
(* settled runs to the next await (or the end) without interleaving.  The  *)
(* only awaits inside a cycle are fetch(url) and resp.json() (lines 45 and *)
(* 46), so an update cycle has two positions.                              *)
(*                                                                         *)
(* Numbers: popularities are drawn from multiples of 20, so that every     *)
(* histogram tick d3 computes for 20 thresholds is an integer.             *)
(***************************************************************************)
EXTENDS Integers, Sequences, FiniteSets, TLC

VARIABLES
    stations,        \* let stations (line 34)
    stationsReq,     \* history: the start_hour/end_hour of the request whose answer is in stations
    filters,         \* let filters (line 35): a function whose domain is the keys present
    startHour,       \* let startHour (line 36)
    endHour,         \* let endHour (line 37)
    aggregate,       \* let aggregate (line 38)
    startHourRange,  \* the value of the start-hour slider
    endHourRange,    \* the value of the end-hour slider
    debounced,       \* the debounced slider handlers with an invocation pending
    isUpdating,      \* let isUpdating (line 366)
    updateTimeout,   \* let updateTimeout (line 367): a timer id, or NoTimer
    timers,          \* the ids of the setTimeout(updateAll, 100) timers still pending
    cycles,          \* the updateAll calls past the isUpdating guard that are suspended at an await
    loaderHidden,    \* whether the loader overlay carries the class 'hidden'
    dataLayer,       \* let dataLayer (line 32), with the closure of its accessors
    legend,          \* the content of the map legend
    charts,          \* the two chart containers: container.chart and its options' closure
    loaded,          \* whether the map's 'load' event has fired
    events,          \* history: the number of user events so far
    hist,            \* history: any trigger yet, the triggers queued behind a cycle and the cycles
                     \* started since the last trigger, whether a fetch has failed
    probe            \* the position of the run that applies the pure functions to drawn inputs

vars == <<stations, stationsReq, filters, startHour, endHour, aggregate, startHourRange,
          endHourRange, debounced, isUpdating, updateTimeout, timers, cycles, loaderHidden,
          dataLayer, legend, charts, loaded, events, hist, probe>>

(***************************************************************************)
(* Bounds of the model.                                                    *)
(***************************************************************************)
MaxEvents == 2      \* user events (slider inputs, checkbox toggles, clicks on a bar) in one run
MaxStations == 4    \* the longest station list drawn for the pure functions
NumCells == 3       \* the cells of the hexagonal grid

(***************************************************************************)
(* Program constants.                                                      *)
(***************************************************************************)
SentinelStation == 3000
InitialStartHour == 0
InitialEndHour == 23
BinCount == 20
MagmaColors == 256
NoTimer == 0
NegInfinity == -1000000

Max(a, b) == IF a >= b THEN a ELSE b
Min(a, b) == IF a <= b THEN a ELSE b

RECURSIVE SumSeq(_)
SumSeq(s) == IF Len(s) = 0 THEN 0 ELSE Head(s) + SumSeq(Tail(s))

RECURSIVE MaxSeq(_)
\* Math.max(...values): -Infinity for no arguments.
MaxSeq(s) == IF Len(s) = 0 THEN NegInfinity ELSE Max(Head(s), MaxSeq(Tail(s)))

Remove(s, i) == [k \in 1..(Len(s) - 1) |-> IF k < i THEN s[k] ELSE s[k + 1]]

(***************************************************************************)
(* Geometry.  A station's geometry is a point, named by where it lies in   *)
(* the grid: "a" inside cell 0, "ab" on the edge shared by cells 0 and 1,  *)
(* "c" inside cell 2.  Distinct stations are distinct points in general    *)
(* position, so three or more of them have a convex hull that is a         *)
(* polygon.  The cells lie in a row, and the hull of a set of stations     *)
(* meets every cell from the first to the last cell a station touches.     *)
(***************************************************************************)
NullGeometry == [type |-> "null", at |-> "", cells |-> {}]
Point(at) == [type |-> "Point", at |-> at, cells |-> {}]
Polygon(cells) == [type |-> "Polygon", at |-> "", cells |-> cells]

\* JSON.parse(row.geometry): the text "null" parses to null, a GeoJSON point to its object.
JSONparse(text) == IF text = "null" THEN NullGeometry ELSE Point(text)

CellsAt(at) == IF at = "a" THEN {0} ELSE IF at = "ab" THEN {0, 1} ELSE IF at = "c" THEN {2} ELSE {}

CellsOf(g) == IF g.type = "Point" THEN CellsAt(g.at) ELSE g.cells

\* turf.booleanIntersects(hex, g) for a cell of the grid and a geometry that is not null.
booleanIntersects(hex, g) == hex.geometry.cells \cap CellsOf(g) # {}

\* turf.hexGrid(turf.bbox(outlineData), 0.3): the cells, in the order of their indices.
hexGrid == [i \in 1..NumCells |-> [index |-> i - 1, geometry |-> Polygon({i - 1})]]

\* turf.convex: null unless the hull of the points is a polygon (three points or more).
convex(features) ==
    LET pts == SelectSeq(features, LAMBDA f : f.geometry.type # "null")
        touched == UNION {CellsOf(pts[i].geometry) : i \in 1..Len(pts)}
    IN  IF Len(pts) < 3 THEN NullGeometry
        ELSE Polygon({c \in 0..(NumCells - 1) :
                        \E lo \in touched, hi \in touched : lo <= c /\ c <= hi})

(***************************************************************************)
(* getDashboardFeatures (lines 51-105).                                    *)
(***************************************************************************)
\* row.station_id != 3000 (line 53)
NotSentinel(row) == row.station_id # SentinelStation

\* Mutant of TotalPopularity: the total as the sum of the two popularities.
TotalPopularitySum(row) == row.P_o + row.P_d

\* Math.max(row.P_o, row.P_d) (line 60)
TotalPopularity(row) == Max(row.P_o, row.P_d)

\* lines 54-63
StationFeature(row) ==
    [id |-> row.station_id,
     originPopularity |-> row.P_o,
     destinationPopularity |-> row.P_d,
     totalPopularity |-> TotalPopularity(row),
     geometry |-> JSONparse(row.geometry)]

stationFeaturesOf(stns) ==
    LET kept == SelectSeq(stns, NotSentinel)
    IN  [i \in 1..Len(kept) |-> StationFeature(kept[i])]

\* line 83
matchingStations(hex, stationFeatures) ==
    SelectSeq(stationFeatures,
              LAMBDA station : station.geometry.type # "null" /\ booleanIntersects(hex, station.geometry))

\* lines 89-102
HexFeature(hex, matching) ==
    [id |-> hex.index,
     originPopularity |-> SumSeq([i \in 1..Len(matching) |-> matching[i].originPopularity]),
     destinationPopularity |-> SumSeq([i \in 1..Len(matching) |-> matching[i].destinationPopularity]),
     totalPopularity |-> SumSeq([i \in 1..Len(matching) |-> matching[i].totalPopularity]),
     geometry |-> hex.geometry]

\* The result is [threw, value]: turf.booleanIntersects(hex, null) throws a TypeError
\* at line 78 when turf.convex returned null and the grid has a cell.
getDashboardFeatures(stns, agg) ==
    LET stationFeatures == stationFeaturesOf(stns)
        stationsHull == convex(stationFeatures)
        keptHex == SelectSeq(hexGrid,
                     LAMBDA hex : /\ booleanIntersects(hex, stationsHull)
                                  /\ Len(matchingStations(hex, stationFeatures)) # 0)
    IN  IF ~agg THEN [threw |-> FALSE, value |-> stationFeatures]
        ELSE IF stationsHull.type = "null" /\ Len(hexGrid) > 0
             THEN [threw |-> TRUE, value |-> <<>>]
        ELSE [threw |-> FALSE,
              value |-> [k \in 1..Len(keptHex) |->
                           HexFeature(keptHex[k], matchingStations(keptHex[k], stationFeatures))]]

(***************************************************************************)
(* calculateColor (lines 220-223).  d3.scaleSequential(d3.interpolateMagma)*)
(* with domain [-1, 1] maps value to t = (value + 1) / 2 and returns entry *)
(* floor(t * 256), clamped to 0..255, of the magma ramp; for a value that  *)
(* is NaN it returns its "unknown" value, undefined.  A colour is the      *)
(* index of its ramp entry, or Undefined.                                  *)
(***************************************************************************)
Undefined == -1

calculateColor(originPopularity, destinationPopularity, totalPopularity) ==
    LET diff == destinationPopularity - originPopularity
    IN  IF totalPopularity = 0
        THEN IF diff = 0 THEN Undefined               \* 0 / 0 is NaN
             ELSE IF diff > 0 THEN MagmaColors - 1    \* +Infinity
             ELSE 0                                   \* -Infinity
        ELSE LET num == (MagmaColors \div 2) * (diff + totalPopularity)
                 t256 == IF totalPopularity > 0 THEN num \div totalPopularity
                         ELSE (-num) \div (-totalPopularity)
             IN  Max(0, Min(MagmaColors - 1, t256))

(***************************************************************************)
(* updateMap (lines 152-206).                                              *)
(***************************************************************************)
Has(flt, key) == key \in DOMAIN flt

\* Mutant of Passes: the upper bounds exclusive.
PassesBelowMax(feature, flt) ==
    /\ (~Has(flt, "originPopularityMin") \/ feature.originPopularity >= flt["originPopularityMin"])
    /\ (~Has(flt, "originPopularityMax") \/ feature.originPopularity < flt["originPopularityMax"])
    /\ (~Has(flt, "destinationPopularityMin") \/ feature.destinationPopularity >= flt["destinationPopularityMin"])
    /\ (~Has(flt, "destinationPopularityMax") \/ feature.destinationPopularity < flt["destinationPopularityMax"])

\* lines 156-161
Passes(feature, flt) ==
    /\ (~Has(flt, "originPopularityMin") \/ feature.originPopularity >= flt["originPopularityMin"])
    /\ (~Has(flt, "originPopularityMax") \/ feature.originPopularity <= flt["originPopularityMax"])
    /\ (~Has(flt, "destinationPopularityMin") \/ feature.destinationPopularity >= flt["destinationPopularityMin"])
    /\ (~Has(flt, "destinationPopularityMax") \/ feature.destinationPopularity <= flt["destinationPopularityMax"])

\* The layer updateMap creates: its data, the colour getLineColor gives each datum, and
\* the feature set its accessors close over.
updateMap(features, flt) ==
    LET filteredFeatures == SelectSeq(features, LAMBDA feature : Passes(feature, flt))
    IN  [exists |-> TRUE,
         data |-> filteredFeatures,
         lineColor |-> [i \in 1..Len(filteredFeatures) |->
                          calculateColor(filteredFeatures[i].originPopularity,
                                         filteredFeatures[i].destinationPopularity,
                                         filteredFeatures[i].totalPopularity)],
         features |-> features]

NoLayer == [exists |-> FALSE, data |-> <<>>, lineColor |-> <<>>, features |-> <<>>]

(***************************************************************************)
(* renderChart (lines 277-364) and updateCharts (lines 266-274).           *)
(*                                                                         *)
(* d3.bin().domain([0, M]).thresholds(20): the thresholds are the ticks    *)
(* d3.ticks(0, M, 20) that lie strictly between 0 and M, so bin k spans    *)
(* [(k-1)*step, min(k*step, M)], and a value on a threshold falls in the   *)
(* bin above it (bisect right).  For M = 0 there is one bin [0, 0]; for no *)
(* feature M is Math.max() = -Infinity and there is one empty bin.  The    *)
(* step is d3's tickIncrement, here for M >= 20, where it is an integer.   *)
(***************************************************************************)
RECURSIVE Power10(_)
\* The largest power of ten p with BinCount * p <= m (1 when there is none).
Power10(m) == IF m >= BinCount * 10 THEN 10 * Power10(m \div 10) ELSE 1

\* d3 tickIncrement(0, m, 20): error = m / (20 * p) is compared with sqrt(50), sqrt(10), sqrt(2).
TickStep(m) ==
    LET p == Power10(m)
        unit == BinCount * p
    IN  IF m * m >= 50 * unit * unit THEN 10 * p
        ELSE IF m * m >= 10 * unit * unit THEN 5 * p
        ELSE IF m * m >= 2 * unit * unit THEN 2 * p
        ELSE p

MinKey(property) == IF property = "originPopularity" THEN "originPopularityMin" ELSE "destinationPopularityMin"
MaxKey(property) == IF property = "originPopularity" THEN "originPopularityMax" ELSE "destinationPopularityMax"

\* d.properties[property]
Metric(feature, property) ==
    IF property = "originPopularity" THEN feature.originPopularity ELSE feature.destinationPopularity

\* The number of bins over [0, m] with thresholds every `step`.
BinTotal(m, step) == IF m <= 0 THEN 1 ELSE (m + step - 1) \div step

\* The bin (from 1) of a value x of the domain: the number of thresholds <= x, plus one.
BinIndex(x, m, step) == IF m <= 0 THEN 1 ELSE Min(x \div step, BinTotal(m, step) - 1) + 1

\* The bins of d3.bin over the domain [0, m] with thresholds every `step`, each with x0,
\* x1 and the number of values in it (values outside the domain are ignored).
Bins(values, m, step) ==
    [k \in 1..BinTotal(m, step) |->
       [x0 |-> IF m <= 0 THEN 0 ELSE (k - 1) * step,
        x1 |-> IF m <= 0 THEN m ELSE Min(k * step, m),
        length |-> Cardinality({i \in 1..Len(values) :
                     values[i] >= 0 /\ values[i] <= m /\ BinIndex(values[i], m, step) = k})]]

BinsTo(values, m) == Bins(values, m, TickStep(m))

MetricValues(features, property) == [i \in 1..Len(features) |-> Metric(features[i], property)]

\* lines 283-286
histogramDataOf(features, property) ==
    BinsTo(MetricValues(features, property), MaxSeq(MetricValues(features, property)))

NoChart == [rendered |-> FALSE, features |-> <<>>, property |-> "", cells |-> FALSE, selected |-> 0]

\* The chart renderChart leaves in the container: created (line 359) or updated (line
\* 362) with options whose handlers close over features and over the histogramData
\* computed from them, and whose y axis is titled by the aggregate flag (line 326).  No
\* data point is selected in it.
renderChart(features, property, agg) ==
    [rendered |-> TRUE, features |-> features, property |-> property, cells |-> agg, selected |-> 0]

\* const histogramData in the closure of a chart's handlers (line 283).
histogramData(chart) == histogramDataOf(chart.features, chart.property)

Without(flt, keys) == [k \in (DOMAIN flt) \ keys |-> flt[k]]

\* lines 267-270
ClearedFilters(flt) ==
    Without(flt, {"originPopularityMin", "originPopularityMax",
                  "destinationPopularityMin", "destinationPopularityMax"})

ChartIds == {"origin-chart", "destination-chart"}
PropertyOf(containerId) == IF containerId = "origin-chart" THEN "originPopularity" ELSE "destinationPopularity"

\* lines 272-273
updateCharts(features, agg) == [c \in ChartIds |-> renderChart(features, PropertyOf(c), agg)]

\* Mutant of SelectedFilters: a selection replaces the whole filter record, dropping the
\* bounds of the other metric.
SelectedFiltersClearAll(flt, property, data, i) ==
    IF i = 0
    THEN ClearedFilters(flt)
    ELSE [k \in {MinKey(property), MaxKey(property)} |->
            IF k = MinKey(property) THEN data[i].x0 ELSE data[i].x1]

\* lines 295-306: filters after the handler, for selection = [] (i = 0) or [i - 1].
SelectedFilters(flt, property, data, i) ==
    IF i = 0
    THEN Without(flt, {MinKey(property), MaxKey(property)})
    ELSE [k \in (DOMAIN flt) \cup {MinKey(property), MaxKey(property)} |->
            IF k = MinKey(property) THEN data[i].x0
            ELSE IF k = MaxKey(property) THEN data[i].x1
            ELSE flt[k]]

(***************************************************************************)
(* The popularity data source and the controls.                            *)
(***************************************************************************)
Row(id, po, pd, geometry) == [station_id |-> id, P_o |-> po, P_d |-> pd, geometry |-> geometry]

\* The answers the data source gives in the dashboard's runs: no station; four stations
\* and the sentinel; four stations, one of no popularity and one of no geometry.
Responses ==
    { <<>>,
      <<Row(SentinelStation, 40, 40, "a"), Row(1, 20, 0, "a"), Row(2, 0, 40, "ab"),
        Row(3, 20, 20, "c"), Row(4, 40, 20, "c")>>,
      <<Row(1, 0, 0, "a"), Row(2, 20, 40, "c"), Row(3, 40, 20, "null"), Row(4, 20, 0, "c")>> }

\* The two range inputs: min 0, max 23.  Assigning a value outside the range to a range
\* input sets it to the nearest bound.
SliderMin == 0
SliderMax == 23
SliderValue(v) == Max(SliderMin, Min(SliderMax, v))

\* The slider positions the user moves a slider to.
HourInputs == {SliderMin, SliderMax}

NoBuild == [threw |-> FALSE, value |-> <<>>]

Init ==
    /\ stations = <<>>
    /\ stationsReq = [start_hour |-> InitialStartHour, end_hour |-> InitialEndHour]
    /\ filters = [k \in {} |-> 0]
    /\ startHour = InitialStartHour
    /\ endHour = InitialEndHour
    /\ aggregate = TRUE
    /\ startHourRange = SliderValue(InitialStartHour)
    /\ endHourRange = SliderValue(InitialEndHour)
    /\ debounced = {}
    /\ isUpdating = FALSE
    /\ updateTimeout = NoTimer
    /\ timers = {}
    /\ cycles = <<>>
    /\ loaderHidden \in BOOLEAN
    /\ dataLayer = NoLayer
    /\ legend = "empty"
    /\ charts = [c \in ChartIds |-> NoChart]
    /\ loaded = FALSE
    /\ events = 0
    /\ hist = [any |-> FALSE, queued |-> 0, started |-> 0, failed |-> FALSE]
    /\ probe = [pc |-> "off", built |-> NoBuild]

(***************************************************************************)
(* updateAll (lines 366-392), up to its first await.                       *)
(***************************************************************************)
\* Mutant of ClearTimeout: the pending timer is left to fire.
ClearTimeoutSkipped(pending) == pending

\* lines 369-371: the pending timers after clearTimeout(updateTimeout).
ClearTimeout(pending) == IF updateTimeout # NoTimer THEN pending \ {updateTimeout} ELSE pending

\* Mutant of Guarded: no re-entrancy guard.
GuardedNever == FALSE

\* line 373
Guarded == isUpdating

\* The id setTimeout returns: one no pending timer has, and not the one updateTimeout holds.
NewTimer(pending) ==
    CHOOSE id \in 1..(Cardinality(pending) + 2) :
        /\ id \notin pending \cup {updateTimeout}
        /\ \A j \in 1..(id - 1) : j \in pending \cup {updateTimeout}

\* The call updateAll() with `pending` the timers pending at the call; `trigger` tells a
\* call by a handler from the call by the deferred re-run timer.  The caller has set
\* startHour' and endHour'.
updateAll(pending, trigger) ==
    LET cleared == ClearTimeout(pending)
    IN  IF Guarded
        THEN /\ timers' = cleared \cup {NewTimer(cleared)}
             /\ updateTimeout' = NewTimer(cleared)
             /\ hist' = IF trigger THEN [hist EXCEPT !.any = TRUE, !.queued = @ + 1, !.started = 0]
                        ELSE hist
             /\ UNCHANGED <<isUpdating, loaderHidden, cycles>>
        ELSE /\ timers' = cleared
             /\ isUpdating' = TRUE
             /\ loaderHidden' = FALSE
             /\ cycles' = Append(cycles, [pc |-> "fetch", start_hour |-> startHour', end_hour |-> endHour'])
             /\ hist' = IF trigger THEN [hist EXCEPT !.any = TRUE, !.queued = 0, !.started = 1]
                        ELSE [hist EXCEPT !.started = @ + 1]
             /\ UNCHANGED updateTimeout

display == <<stations, stationsReq, filters, dataLayer, legend, charts>>

\* bikesmap.on('load', ...) (lines 440-456)
MapLoad ==
    /\ probe.pc = "off"
    /\ ~loaded
    /\ loaded' = TRUE
    /\ UNCHANGED <<startHour, endHour>>
    /\ updateAll(timers, TRUE)
    /\ UNCHANGED <<display, aggregate, startHourRange, endHourRange, debounced, events, probe>>

\* The user moves the start-hour slider: _.debounce (line 401) defers the handler.
StartInput(v) ==
    /\ probe.pc = "off"
    /\ events < MaxEvents
    /\ events' = events + 1
    /\ startHourRange' = v
    /\ debounced' = debounced \cup {"start"}
    /\ UNCHANGED <<display, startHour, endHour, aggregate, endHourRange, isUpdating, updateTimeout,
                   timers, cycles, loaderHidden, loaded, hist, probe>>

\* The user moves the end-hour slider (line 412).
EndInput(v) ==
    /\ probe.pc = "off"
    /\ events < MaxEvents
    /\ events' = events + 1
    /\ endHourRange' = v
    /\ debounced' = debounced \cup {"end"}
    /\ UNCHANGED <<display, startHour, endHour, aggregate, startHourRange, isUpdating, updateTimeout,
                   timers, cycles, loaderHidden, loaded, hist, probe>>

\* The debounced start-hour handler runs (lines 401-410).
StartHandler ==
    /\ probe.pc = "off"
    /\ "start" \in debounced
    /\ debounced' = debounced \ {"start"}
    /\ startHour' = startHourRange
    /\ IF startHourRange >= endHour
       THEN /\ endHour' = startHourRange + 1
            /\ endHourRange' = SliderValue(startHourRange + 1)
       ELSE UNCHANGED <<endHour, endHourRange>>
    /\ updateAll(timers, TRUE)
    /\ UNCHANGED <<display, aggregate, startHourRange, loaded, events, probe>>

\* The debounced end-hour handler runs (lines 412-421).
EndHandler ==
    /\ probe.pc = "off"
    /\ "end" \in debounced
    /\ debounced' = debounced \ {"end"}
    /\ endHour' = endHourRange
    /\ IF endHourRange <= startHour
       THEN /\ startHour' = endHourRange - 1
            /\ startHourRange' = SliderValue(endHourRange - 1)
       ELSE UNCHANGED <<startHour, startHourRange>>
    /\ updateAll(timers, TRUE)
    /\ UNCHANGED <<display, aggregate, endHourRange, loaded, events, probe>>

\* The user toggles the aggregate checkbox (lines 428-431).
AggregateChange ==
    /\ probe.pc = "off"
    /\ events < MaxEvents
    /\ events' = events + 1
    /\ aggregate' = ~aggregate
    /\ UNCHANGED <<startHour, endHour>>
    /\ updateAll(timers, TRUE)
    /\ UNCHANGED <<display, startHourRange, endHourRange, debounced, loaded, probe>>

\* A deferred re-run timer fires: setTimeout(updateAll, 100) (line 374).
TimerFire(id) ==
    /\ probe.pc = "off"
    /\ id \in timers
    /\ UNCHANGED <<startHour, endHour>>
    /\ updateAll(timers \ {id}, FALSE)
    /\ UNCHANGED <<display, aggregate, startHourRange, endHourRange, debounced, loaded, events, probe>>

(***************************************************************************)
(* fetchStationData (lines 40-49) and the rest of updateAll (384-391).     *)
(***************************************************************************)
\* await fetch(url) settles with a response (line 45).
FetchResponse(i) ==
    /\ probe.pc = "off"
    /\ i \in 1..Len(cycles)
    /\ cycles[i].pc = "fetch"
    /\ cycles' = [cycles EXCEPT ![i].pc = "json"]
    /\ UNCHANGED <<display, startHour, endHour, aggregate, startHourRange, endHourRange, debounced,
                   isUpdating, updateTimeout, timers, loaderHidden, loaded, events, hist, probe>>

\* Mutant of FetchFail: the failure is caught, the loader hidden and the guard released.
FetchFailCaught(i) ==
    /\ probe.pc = "off"
    /\ i \in 1..Len(cycles)
    /\ cycles' = Remove(cycles, i)
    /\ hist' = [hist EXCEPT !.failed = TRUE]
    /\ loaderHidden' = TRUE
    /\ isUpdating' = FALSE
    /\ UNCHANGED <<display, startHour, endHour, aggregate, startHourRange, endHourRange, debounced,
                   updateTimeout, timers, loaded, events, probe>>

\* fetch(url) or resp.json() rejects (lines 45-46): fetchStationData and updateAll
\* reject, and nothing catches it.
FetchFail(i) ==
    /\ probe.pc = "off"
    /\ i \in 1..Len(cycles)
    /\ cycles' = Remove(cycles, i)
    /\ hist' = [hist EXCEPT !.failed = TRUE]
    /\ UNCHANGED <<display, startHour, endHour, aggregate, startHourRange, endHourRange, debounced,
                   isUpdating, updateTimeout, timers, loaderHidden, loaded, events, probe>>

\* resp.json() settles with `data` (line 46): stations = data, then lines 384-391.
JsonResolve(i, data) ==
    /\ probe.pc = "off"
    /\ i \in 1..Len(cycles)
    /\ cycles[i].pc = "json"
    /\ cycles' = Remove(cycles, i)
    /\ stations' = data
    /\ stationsReq' = [start_hour |-> cycles[i].start_hour, end_hour |-> cycles[i].end_hour]
    /\ LET built == getDashboardFeatures(data, aggregate)
       IN  IF built.threw
           THEN UNCHANGED <<filters, dataLayer, legend, charts, isUpdating, loaderHidden>>
           ELSE /\ dataLayer' = updateMap(built.value, filters)
                /\ legend' = "scales"
                /\ filters' = ClearedFilters(filters)
                /\ charts' = updateCharts(built.value, aggregate)
                /\ loaderHidden' = TRUE
                /\ isUpdating' = FALSE
    /\ UNCHANGED <<startHour, endHour, aggregate, startHourRange, endHourRange, debounced,
                   updateTimeout, timers, loaded, events, hist, probe>>

\* The bars of a chart that count a feature: the bins its features' values fall in.
BarsAt(values, m) == {BinIndex(values[j], m, TickStep(m)) : j \in 1..Len(values)}

Bars(chart) ==
    BarsAt(MetricValues(chart.features, chart.property),
           MaxSeq(MetricValues(chart.features, chart.property)))

\* The clicks a chart offers: 0 for a click on the selected bar, i for one on another
\* bar.  Only a bar that counts a feature has a height to click.
Clickable(chart) == (Bars(chart) \cup {0}) \ {chart.selected}

\* dataPointSelection (lines 294-308) of the chart in container c: the user clicks bar i,
\* which selects it (selection = [i - 1]), or clicks the selected bar, which leaves
\* nothing selected (i = 0).
dataPointSelection(c, i) ==
    /\ probe.pc = "off"
    /\ charts[c].rendered
    /\ i \in Clickable(charts[c])
    /\ events < MaxEvents
    /\ events' = events + 1
    /\ filters' = SelectedFilters(filters, charts[c].property, histogramData(charts[c]), i)
    /\ dataLayer' = updateMap(charts[c].features, filters')
    /\ charts' = [charts EXCEPT ![c].selected = i]
    /\ UNCHANGED <<stations, stationsReq, legend, startHour, endHour, aggregate, startHourRange,
                   endHourRange, debounced, isUpdating, updateTimeout, timers, cycles, loaderHidden,
                   loaded, hist, probe>>

Next ==
    \/ MapLoad
    \/ \E v \in HourInputs : StartInput(v)
    \/ \E v \in HourInputs : EndInput(v)
    \/ StartHandler
    \/ EndHandler
    \/ AggregateChange
    \/ \E id \in timers : TimerFire(id)
    \/ \E i \in 1..Len(cycles) : FetchResponse(i)
    \/ \E i \in 1..Len(cycles) : FetchFail(i)
    \/ \E i \in 1..Len(cycles), data \in Responses : JsonResolve(i, data)
    \/ \E c \in {k \in ChartIds : charts[k].rendered} :
          \E i \in Clickable(charts[c]) : dataPointSelection(c, i)

Spec == Init /\ [][Next]_vars

(***************************************************************************)
(* The dashboard when no fetch fails, with the scheduling the browser      *)
(* guarantees: a pending timer fires, a pending debounced handler runs, a  *)
(* request is answered.                                                    *)
(***************************************************************************)
NextNoFail ==
    \/ MapLoad
    \/ \E v \in HourInputs : StartInput(v)
    \/ \E v \in HourInputs : EndInput(v)
    \/ StartHandler
    \/ EndHandler
    \/ AggregateChange
    \/ \E id \in timers : TimerFire(id)
    \/ \E i \in 1..Len(cycles) : FetchResponse(i)
    \/ \E i \in 1..Len(cycles), data \in Responses : JsonResolve(i, data)
    \/ \E c \in {k \in ChartIds : charts[k].rendered} :
          \E i \in Clickable(charts[c]) : dataPointSelection(c, i)

NoFailSpec ==
    /\ Init /\ [][NextNoFail]_vars
    /\ WF_vars(MapLoad) /\ WF_vars(StartHandler) /\ WF_vars(EndHandler)
    /\ WF_vars(\E id \in timers : TimerFire(id))
    /\ WF_vars(\E i \in 1..Len(cycles) : FetchResponse(i))
    /\ WF_vars(\E i \in 1..Len(cycles), data \in Responses : JsonResolve(i, data))

(***************************************************************************)
(* The pure functions applied to drawn inputs: a station list, a mode and  *)
(* a filter are drawn, getDashboardFeatures builds the features and        *)
(* updateMap draws them.                                                   *)
(***************************************************************************)
PureRows ==
    { Row(SentinelStation, 40, 40, "a"),
      Row(1, 0, 0, "a"), Row(2, 20, 0, "a"), Row(3, 0, 40, "ab"),
      Row(4, 20, 20, "c"), Row(5, 40, 20, "null"), Row(6, 20, 40, "c") }

StationLists == UNION {[1..n -> PureRows] : n \in 0..MaxStations}

FilterChoices ==
    { [k \in {} |-> 0],
      [k \in {"originPopularityMin"} |-> 20],
      [k \in {"destinationPopularityMax"} |-> 20],
      [k \in {"originPopularityMin", "originPopularityMax"} |-> 20],
      [k \in {"originPopularityMax", "destinationPopularityMin"} |->
          IF k = "originPopularityMax" THEN 20 ELSE 40],
      [k \in {"originPopularityMin", "originPopularityMax",
              "destinationPopularityMin", "destinationPopularityMax"} |->
          IF k = "originPopularityMin" THEN 0
          ELSE IF k = "originPopularityMax" THEN 40
          ELSE IF k = "destinationPopularityMin" THEN 20 ELSE 60] }

InitPure ==
    /\ stations \in StationLists
    /\ stationsReq = [start_hour |-> InitialStartHour, end_hour |-> InitialEndHour]
    /\ filters \in FilterChoices
    /\ startHour = InitialStartHour
    /\ endHour = InitialEndHour
    /\ aggregate \in BOOLEAN
    /\ startHourRange = SliderValue(InitialStartHour)
    /\ endHourRange = SliderValue(InitialEndHour)
    /\ debounced = {}
    /\ isUpdating = FALSE
    /\ updateTimeout = NoTimer
    /\ timers = {}
    /\ cycles = <<>>
    /\ loaderHidden = FALSE
    /\ dataLayer = NoLayer
    /\ legend = "empty"
    /\ charts = [c \in ChartIds |-> NoChart]
    /\ loaded = FALSE
    /\ events = 0
    /\ hist = [any |-> FALSE, queued |-> 0, started |-> 0, failed |-> FALSE]
    /\ probe = [pc |-> "start", built |-> NoBuild]

\* const features = getDashboardFeatures() (line 384)
BuildFeatures ==
    /\ probe.pc = "start"
    /\ probe' = [pc |-> "built", built |-> getDashboardFeatures(stations, aggregate)]
    /\ UNCHANGED <<display, startHour, endHour, aggregate, startHourRange, endHourRange, debounced,
                   isUpdating, updateTimeout, timers, cycles, loaderHidden, loaded, events, hist>>

\* updateMap(features) (line 385)
DrawMap ==
    /\ probe.pc = "built"
    /\ ~probe.built.threw
    /\ dataLayer' = updateMap(probe.built.value, filters)
    /\ probe' = [probe EXCEPT !.pc = "drawn"]
    /\ UNCHANGED <<stations, stationsReq, filters, legend, charts, startHour, endHour, aggregate,
                   startHourRange, endHourRange, debounced, isUpdating, updateTimeout, timers,
                   cycles, loaderHidden, loaded, events, hist>>

NextPure == BuildFeatures \/ DrawMap

PureSpec == InitPure /\ [][NextPure]_vars

(***************************************************************************)
(* Properties.                                                             *)
(***************************************************************************)
\* Nothing is pending: no cycle is suspended, no timer and no debounced handler waits.
Settled == cycles = <<>> /\ timers = {} /\ debounced = {}

\* The orchestrator is idle and nothing is pending.
Quiet == ~isUpdating /\ Settled

\* C1: at most one fetch-and-render cycle is active at any time: no updateAll call
\* passes the isUpdating guard (and issues a fetch) while another that passed it has not
\* finished.
OneCycleAtATime == Len(cycles) <= 1

\* A trigger and then a deferred re-run found a cycle in flight, which is still in flight.
OneCycleWitness ==
    /\ Len(cycles) = 1
    /\ hist.queued >= 1
    /\ timers # {}
    /\ cycles[1].pc = "json"

\* C2: however many triggers call updateAll while a cycle is in flight, at most one
\* deferred re-run timer is pending, at most one cycle starts after the last trigger,
\* and once the orchestrator is idle with nothing pending exactly one has started.
Coalescing ==
    /\ Cardinality(timers) <= 1
    /\ hist.started <= 1
    /\ (hist.queued >= 1 /\ Quiet => hist.started = 1)
    /\ (hist.queued >= 1 /\ hist.started = 1 => timers = {})

\* Two triggers arrived during one cycle, and the single follow-up cycle has run.
CoalescingWitness == hist.queued >= 2 /\ Quiet /\ hist.started = 1

\* C3: the map a cycle draws from newly fetched data is drawn with no filter bound in
\* force: when a cycle finishes, the map shows every feature of the new feature set.
CycleDrawsUnfiltered ==
    [][isUpdating /\ ~isUpdating' => dataLayer'.data = dataLayer'.features]_vars

\* C4: the time window stays within 0 <= startHour < endHour <= 23, and every station
\* data request carries start_hour and end_hour in 0..23.
TimeWindowInRange ==
    /\ 0 <= startHour /\ startHour < endHour /\ endHour <= 23
    /\ \A i \in 1..Len(cycles) : /\ cycles[i].start_hour \in 0..23
                                 /\ cycles[i].end_hour \in 0..23

\* C5: when no fetch fails, once a trigger has arrived and nothing is pending any more
\* the orchestrator is idle, and what it displays was fetched with the final
\* startHour/endHour and built with the final aggregate flag.
LatestParametersWin ==
    hist.any /\ Settled =>
        /\ ~isUpdating
        /\ stationsReq = [start_hour |-> startHour, end_hour |-> endHour]
        /\ \A c \in ChartIds : charts[c].rendered /\ charts[c].cells = aggregate

NeutralColor == calculateColor(20, 20, 20)

\* C7: a drawn feature with totalPopularity = 0 gets a defined colour, the neutral one.
ZeroPopularityIsNeutral ==
    probe.pc = "drawn" =>
        \A i \in 1..Len(dataLayer.data) :
            dataLayer.data[i].totalPopularity = 0 =>
                /\ dataLayer.lineColor[i] # Undefined
                /\ dataLayer.lineColor[i] = NeutralColor

\* Whether a value lies within the bounds the filter holds for a metric: an absent bound
\* constrains nothing, a present one is inclusive.
Within(v, flt, property) ==
    /\ (MinKey(property) \in DOMAIN flt => flt[MinKey(property)] <= v)
    /\ (MaxKey(property) \in DOMAIN flt => v <= flt[MaxKey(property)])

\* The indices of the features that lie within the filter on both metrics.
Admitted(features, flt) ==
    {i \in 1..Len(features) :
        /\ Within(features[i].originPopularity, flt, "originPopularity")
        /\ Within(features[i].destinationPopularity, flt, "destinationPopularity")}

\* Whether `shown` lists exactly the members of `features` at the indices `keep`, in order.
ListsExactly(shown, features, keep) ==
    /\ Len(shown) = Cardinality(keep)
    /\ \A i \in keep : shown[Cardinality({j \in keep : j <= i})] = features[i]

\* C8: the features updateMap draws are exactly the features whose originPopularity and
\* destinationPopularity both lie within their bounds, ends included, absent bounds
\* constraining nothing.
MapShowsExactlyAdmitted ==
    probe.pc = "drawn" =>
        ListsExactly(dataLayer.data, probe.built.value, Admitted(probe.built.value, filters))

\* A filter was applied that keeps a feature lying on a bound and drops another.
MapFilterWitness ==
    /\ probe.pc = "drawn"
    /\ "originPopularityMin" \in DOMAIN filters
    /\ \E i \in 1..Len(dataLayer.data) :
          dataLayer.data[i].originPopularity = filters["originPopularityMin"]
    /\ Len(dataLayer.data) < Len(probe.built.value)
    /\ Len(dataLayer.data) >= 2

OtherProperty(property) ==
    IF property = "originPopularity" THEN "destinationPopularity" ELSE "originPopularity"

\* What a selection in the chart of container c must leave, for a click on bar i (i = 0:
\* the click that deselects).
SelectionEffect(c, i) ==
    LET property == PropertyOf(c)
        other == OtherProperty(property)
        bins == histogramDataOf(charts[c].features, property)
    IN  /\ IF i = 0
           THEN MinKey(property) \notin DOMAIN filters' /\ MaxKey(property) \notin DOMAIN filters'
           ELSE /\ {MinKey(property), MaxKey(property)} \subseteq DOMAIN filters'
                /\ filters'[MinKey(property)] = bins[i].x0
                /\ filters'[MaxKey(property)] = bins[i].x1
        /\ \A k \in {MinKey(other), MaxKey(other)} :
              /\ k \in DOMAIN filters' <=> k \in DOMAIN filters
              /\ k \in DOMAIN filters => filters'[k] = filters[k]
        /\ DOMAIN filters' \subseteq {MinKey(property), MaxKey(property), MinKey(other), MaxKey(other)}
        /\ UNCHANGED <<stations, startHour, endHour, aggregate, cycles, isUpdating, timers>>
        /\ dataLayer'.features = charts[c].features
        /\ ListsExactly(dataLayer'.data, charts[c].features, Admitted(charts[c].features, filters'))

\* C9: selecting bucket i of a metric's histogram sets exactly that metric's bounds to
\* the bucket's edges and deselecting removes exactly them; the other metric's bounds,
\* the station records, the time window and the aggregate flag are unchanged, no fetch
\* is issued, and the map is re-drawn from the feature set the histogram was built from.
SelectionSetsOnlyItsMetric ==
    [][\A c \in {k \in ChartIds : charts[k].rendered} : \A i \in Clickable(charts[c]) :
          dataPointSelection(c, i) => SelectionEffect(c, i)]_vars

\* A bucket is selected in both histograms, and the map shows fewer features than the set.
SelectionWitness ==
    /\ \A c \in ChartIds : charts[c].rendered /\ charts[c].selected # 0
    /\ DOMAIN filters = {"originPopularityMin", "originPopularityMax",
                         "destinationPopularityMin", "destinationPopularityMax"}
    /\ Len(dataLayer.data) < Len(dataLayer.features)

RECURSIVE SumOver(_, _, _)
\* The sum of f[i] over the indices i of the set.
SumOver(f, indices, upTo) ==
    IF upTo = 0 THEN 0
    ELSE (IF upTo \in indices THEN f[upTo] ELSE 0) + SumOver(f, indices, upTo - 1)

\* The indices of the records that are not the sentinel station.
Real(stns) == {i \in 1..Len(stns) : stns[i].station_id # 3000}

\* The indices of the non-sentinel records whose geometry intersects cell `cell`.
InCell(stns, cell) ==
    {i \in Real(stns) : stns[i].geometry # "null" /\ cell \in CellsAt(stns[i].geometry)}

\* C10: getDashboardFeatures returns, not aggregating, exactly one feature per record
\* that is not the sentinel, with originPopularity = P_o, destinationPopularity = P_d
\* and totalPopularity = max(P_o, P_d); aggregating, every cell it emits has a station
\* and carries the sums of P_o, of P_d and of max(P_o, P_d) over the non-sentinel
\* stations that intersect it.
FeatureBuilderResult ==
    probe.pc # "start" /\ probe.pc # "off" /\ ~probe.built.threw =>
        LET out == probe.built.value
            maxima == [i \in 1..Len(stations) |-> Max(stations[i].P_o, stations[i].P_d)]
            origins == [i \in 1..Len(stations) |-> stations[i].P_o]
            destinations == [i \in 1..Len(stations) |-> stations[i].P_d]
        IN  IF ~aggregate
            THEN /\ Len(out) = Cardinality(Real(stations))
                 /\ \A i \in Real(stations) :
                       LET f == out[Cardinality({j \in Real(stations) : j <= i})]
                       IN  /\ f.id = stations[i].station_id
                           /\ f.originPopularity = stations[i].P_o
                           /\ f.destinationPopularity = stations[i].P_d
                           /\ f.totalPopularity = maxima[i]
            ELSE \A k \in 1..Len(out) :
                    LET members == InCell(stations, out[k].id)
                    IN  /\ members # {}
                        /\ out[k].originPopularity = SumOver(origins, members, Len(stations))
                        /\ out[k].destinationPopularity = SumOver(destinations, members, Len(stations))
                        /\ out[k].totalPopularity = SumOver(maxima, members, Len(stations))

\* A cell was built from two stations, from a list that holds the sentinel.
FeatureBuilderWitness ==
    /\ probe.pc = "built"
    /\ aggregate
    /\ ~probe.built.threw
    /\ \E i \in 1..Len(stations) : stations[i].station_id = 3000
    /\ \E k \in 1..Len(probe.built.value) :
          /\ Cardinality(InCell(stations, probe.built.value[k].id)) = 2
          /\ probe.built.value[k].totalPopularity > probe.built.value[k].originPopularity
          /\ probe.built.value[k].totalPopularity > probe.built.value[k].destinationPopularity

====
